---- MODULE Spec2Model ----
(***************************************************************************)
(* MemeSignal (src/app.py): a Streamlit page that looks a token up on the  *)
(* DexScreener API, shows its price and lets the user save one price alert *)
(* in st.session_state.  Every user interaction re-executes main() from    *)
(* the top; st.rerun() re-executes it at once.                             *)
(*                                                                         *)
(* Prices and volumes are floats.  A float is modelled as a record         *)
(* [k, v]: k = "num" with v an integer number of price units (one unit is  *)
(* far above the form's min_value of 0.00000001), k = "nan" or k = "inf".  *)
(* A JSON field of the upstream body is a record [tag, v]: "absent" (the   *)
(* key is missing), "str" (a string float() rejects), or "num", "nan",     *)
(* "inf" (a string float() accepts).                                       *)
(***************************************************************************)
EXTENDS Integers, Sequences, FiniteSets, TLC

\* ---------------------------------------------------------------- bounds
MaxPrice == 3
MaxVolume == 2
MaxPairs == 2
MaxNotify == 2
\* points the aggregator keeps in one price history
MaxHistory == 202

\* ---------------------------------------------------------------- floats
Num(n) == [k |-> "num", v |-> n]
NaN == [k |-> "nan", v |-> 0]
Inf == [k |-> "inf", v |-> 0]

\* a < b on floats: every comparison with NaN is false
\* a comparison that also accepts equal values
FloatLe(a, b) ==
    IF a.k = "nan" \/ b.k = "nan" THEN FALSE
    ELSE IF a.k = "inf" THEN b.k = "inf"
    ELSE IF b.k = "inf" THEN TRUE
    ELSE a.v <= b.v

FloatLt(a, b) ==
    IF a.k = "nan" \/ b.k = "nan" THEN FALSE
    ELSE IF a.k = "inf" THEN FALSE
    ELSE IF b.k = "inf" THEN TRUE
    ELSE a.v < b.v

FloatGt(a, b) == FloatLt(b, a)

IsFinite(a) == a.k = "num"

\* ------------------------------------------------------- upstream fields
Absent == [tag |-> "absent", v |-> 0]
BadStr == [tag |-> "str", v |-> 0]
RawNum(n) == [tag |-> "num", v |-> n]
RawNaN == [tag |-> "nan", v |-> 0]
RawInf == [tag |-> "inf", v |-> 0]

\* the outcome of an expression that may raise
Raised == [raised |-> TRUE, val |-> Num(0)]
Value(x) == [raised |-> FALSE, val |-> x]

\* Python float(s) on a present field: ValueError on a non-numeric string,
\* and "nan", "inf" and negative decimals are accepted as they are
PyFloat(raw) ==
    CASE raw.tag = "num" -> Value(Num(raw.v))
      [] raw.tag = "nan" -> Value(NaN)
      [] raw.tag = "inf" -> Value(Inf)
      [] OTHER -> Raised

\* ------------------------------------------------------------ addresses
Addresses == {"0xPEPE", "SoLDOGE"}
Chains == {"ethereum", "solana"}

\* a string that is neither 0x-prefixed of length 42 nor Base58
InvalidAddress == "not an address"

\* spec section 4.1: 0x-prefixed addresses are ethereum, Base58 ones solana
Classify(address) ==
    IF address = "0xPEPE" THEN "ethereum"
    ELSE IF address = "SoLDOGE" THEN "solana"
    ELSE "invalid"

\* the symbol of the token the aggregator lists under an address
SymbolOf(address) ==
    IF address = "0xPEPE" THEN "PEPE"
    ELSE IF address = "SoLDOGE" THEN "DOGE"
    ELSE "JUNK"

\* ------------------------------------------------- get_meme_coin_data
None == [ok |-> FALSE, price |-> Num(0), pair_address |-> 0,
         base_token |-> "", quote_token |-> "", change_24h |-> Num(0)]

\* key=lambda x: float(x.get('volumeUsd', 0))
VolumeKey(x) ==
    IF x.volumeUsd.tag = "absent" THEN Value(Num(0)) ELSE PyFloat(x.volumeUsd)

\* an insertion that puts x in front of the elements of equal key
RECURSIVE InsertDescUnstable(_, _)
InsertDescUnstable(x, s) ==
    IF s = <<>> THEN <<x>>
    ELSE IF FloatLt(VolumeKey(x).val, VolumeKey(Head(s)).val)
         THEN <<Head(s)>> \o InsertDescUnstable(x, Tail(s))
         ELSE <<x>> \o s

\* insert x into s, which is in descending key order, behind every element
\* whose key is not smaller (equal keys keep their order)
RECURSIVE InsertDesc(_, _)
InsertDesc(x, s) ==
    IF s = <<>> THEN <<x>>
    ELSE IF FloatLt(VolumeKey(Head(s)).val, VolumeKey(x).val)
         THEN <<x>> \o s
         ELSE <<Head(s)>> \o InsertDesc(x, Tail(s))

RECURSIVE SortFrom(_, _, _)
SortFrom(pairs, i, acc) ==
    IF i > Len(pairs) THEN acc
    ELSE SortFrom(pairs, i + 1, InsertDesc(pairs[i], acc))

\* a lookup that takes the pairs in the order of the response
SortedAsIs(pairs) ==
    IF \E i \in 1..Len(pairs) : VolumeKey(pairs[i]).raised
    THEN [raised |-> TRUE, val |-> <<>>]
    ELSE [raised |-> FALSE, val |-> pairs]

\* sorted(pairs, key=..., reverse=True): the keys are computed first, one
\* raising key makes the call raise; the sort is stable
SortedByVolumeDesc(pairs) ==
    IF \E i \in 1..Len(pairs) : VolumeKey(pairs[i]).raised
    THEN [raised |-> TRUE, val |-> <<>>]
    ELSE [raised |-> FALSE, val |-> SortFrom(pairs, 1, <<>>)]

\* float(main_pair.get('priceChange', {}).get('h24', 0))
Change24h(main_pair) ==
    IF main_pair.h24.tag = "absent" THEN Value(Num(0)) ELSE PyFloat(main_pair.h24)

\* the dict of lines 55-61; a missing priceUsd raises KeyError
BuildQuote(main_pair) ==
    IF main_pair.priceUsd.tag = "absent" THEN None
    ELSE IF PyFloat(main_pair.priceUsd).raised THEN None
    ELSE IF Change24h(main_pair).raised THEN None
    ELSE [ok |-> TRUE,
          price |-> PyFloat(main_pair.priceUsd).val,
          pair_address |-> main_pair.pairAddress,
          base_token |-> main_pair.baseToken,
          quote_token |-> main_pair.quoteToken,
          change_24h |-> Change24h(main_pair).val]

\* A response is [kind, pairs]: "timeout" (requests.get or response.json
\* raises), "nopairs" (the body has no 'pairs' key) or "pairs".
get_meme_coin_data(resp) ==
    IF resp.kind = "timeout" THEN None
    ELSE IF resp.kind = "pairs" /\ Len(resp.pairs) > 0
         THEN IF SortedByVolumeDesc(resp.pairs).raised THEN None
              ELSE BuildQuote(SortedByVolumeDesc(resp.pairs).val[1])
         ELSE None

\* ------------------------------------------------ get_historical_data
HistoryLimit == 200

Take(s, n) == IF Len(s) <= n THEN s ELSE SubSeq(s, 1, n)

\* A history response is [kind, points]: "timeout" (the request or the
\* parse raises, or a 'pair' / 'priceHistory' field is null), "nopair"
\* (the field is absent, so the .get defaults apply) or "points".
get_historical_data(resp) ==
    IF resp.kind = "points" THEN Take(resp.points, HistoryLimit) ELSE <<>>

\* a fetch without the try / except of lines 69-74
HistoryRaisesOnFailure(resp) == resp.kind # "points"

\* lines 73-74: the bare except returns [], nothing leaves the function
HistoryRaises(resp) == FALSE

NoHistory == [kind |-> "none", points |-> <<>>]

\* lines 114-115: datetime.fromtimestamp(h['timestamp']/1000) and
\* float(h['priceUsd']) raise on a point that lacks or garbles a field
PointRaises(h) ==
    \/ h.timestamp.tag # "num"
    \/ h.priceUsd.tag = "absent"
    \/ PyFloat(h.priceUsd).raised

ChartRaises(history) == \E i \in 1..Len(history) : PointRaises(history[i])

\* ------------------------------------------------------ the alert form
NoAlert == [present |-> FALSE, price |-> Num(0), condition |-> "",
            token |-> "", active |-> FALSE]

Conditions == {"Price Goes Above", "Price Goes Below"}

\* st.number_input(min_value=0.00000001, value=current_price * 1.1): the
\* widget raises when value < min_value and when value is beyond the
\* largest float the browser represents.  min_value is below one price
\* unit, so for a whole number v of units v * 1.1 < min_value iff 11 * v < 1.
NumberInputRaises(current_price) ==
    \/ current_price.k = "inf"
    \/ current_price.k = "num" /\ 11 * current_price.v < 1

\* a page without the guard of line 100
TruthyAlways(data) == TRUE

\* if coin_data:
Truthy(data) == data.ok

\* a page without the guard of line 155
HasAlertAlways(a) == TRUE

\* 'alert' in st.session_state
HasAlert(a) == a.present

\* a page that leaves the alert in the session
PopKeeps(a) == a

\* st.session_state.pop('alert')
Pop(a) == NoAlert

\* a page whose Stop Monitoring button is never seen pressed
StopNeverPressed(tr) == FALSE

\* if st.button("Stop Monitoring"): line 160
StopPressed(tr) == tr.kind = "stop"

\* a form that stores the quoted price as the threshold
NewAlertAtQuote(alert_price, alert_condition, data) ==
    [present |-> TRUE, price |-> data.price, condition |-> alert_condition,
     token |-> data.base_token, active |-> TRUE]

\* the dict of lines 146-151
NewAlert(alert_price, alert_condition, data) ==
    [present |-> TRUE, price |-> alert_price, condition |-> alert_condition,
     token |-> data.base_token, active |-> TRUE]

\* a check that forgets the second clause
condition_met_above_only(a, current_price) ==
    a.condition = "Price Goes Above" /\ FloatGt(current_price, a.price)

\* lines 168-171
condition_met(a, current_price) ==
    \/ a.condition = "Price Goes Above" /\ FloatGt(current_price, a.price)
    \/ a.condition = "Price Goes Below" /\ FloatLt(current_price, a.price)

\* ------------------------------------------------------------ upstream
RawPrices == {Absent, BadStr, RawNaN, RawInf} \cup {RawNum(n) : n \in -1..MaxPrice}
\* volumes are finite decimals: the order sorted() gives NaN keys is not
\* covered
RawVolumes == {Absent, BadStr} \cup {RawNum(n) : n \in 0..MaxVolume}

Candidate(i, address, chain, price, volume) ==
    [pairAddress |-> i, chainId |-> chain, priceUsd |-> price,
     volumeUsd |-> volume, baseToken |-> SymbolOf(address),
     quoteToken |-> "USDC", h24 |-> Absent]

Timeout == [kind |-> "timeout", pairs |-> <<>>]
NoPairs == [kind |-> "nopairs", pairs |-> <<>>]
Pairs(ps) == [kind |-> "pairs", pairs |-> ps]

\* what one token lookup of a page run may answer: a failure, an empty
\* list or one pair
PageResponses(address) ==
    {Timeout, NoPairs, Pairs(<<>>)} \cup
    {Pairs(<<Candidate(1, address, c, p, v)>>) :
        c \in Chains, p \in RawPrices, v \in {Absent, BadStr, RawNum(MaxVolume)}}

HistoryPoints ==
    {[timestamp |-> RawNum(t), priceUsd |-> p] : t \in 1..2, p \in {RawNum(1), BadStr}}

HistoryResponses ==
    {[kind |-> "timeout", points |-> <<>>], [kind |-> "nopair", points |-> <<>>],
     [kind |-> "points", points |-> <<>>]} \cup
    {[kind |-> "points", points |-> <<h>>] : h \in HistoryPoints} \cup
    {[kind |-> "points", points |-> <<h, g>>] : h \in HistoryPoints, g \in HistoryPoints}

\* ---------------------------------------------------------------- state
VARIABLES
    token_address,  \* the text input's value ("" while empty)
    alert,          \* st.session_state['alert'], NoAlert while absent
    pc,             \* where the page run stands; "wait": finished, idle
    trigger,        \* the interaction that started the run
    coin_data,      \* the run's coin_data
    shown,          \* the buttons the last finished run rendered
    requests,       \* token lookups sent upstream during the run
    notified,       \* play_alert_sound() was called during the run
    evaluated,      \* lines 165-171 were executed during the run
    saved,          \* lines 146-152 were executed during the run
    alertAtStart,   \* st.session_state['alert'] when the run began
    sinceSave,      \* play_alert_sound() calls since the last Save Alert
    upstream,       \* the pair list of the lookup under study (SelectSpec)
    history_resp,   \* what the pair-history request of the run answered
    history         \* the run's history (line 110)

vars == <<token_address, alert, pc, trigger, coin_data, shown, requests,
          notified, evaluated, saved, alertAtStart, sinceSave, upstream,
          history_resp, history>>

NoTrigger == [kind |-> "none", alert_price |-> Num(0), alert_condition |-> ""]
Event(kind) == [kind |-> kind, alert_price |-> Num(0), alert_condition |-> ""]

Init ==
    /\ token_address = ""
    /\ alert = NoAlert
    /\ pc = "wait"
    /\ trigger = NoTrigger
    /\ coin_data = None
    /\ shown = {}
    /\ requests = 0
    /\ notified = FALSE
    /\ evaluated = FALSE
    /\ saved = FALSE
    /\ alertAtStart = NoAlert
    /\ sinceSave = 0
    /\ upstream = <<>>
    /\ history_resp = NoHistory
    /\ history = <<>>

\* main() starts over: line 76
BeginRun(tr, address) ==
    /\ trigger' = tr
    /\ coin_data' = None
    /\ requests' = 0
    /\ notified' = FALSE
    /\ evaluated' = FALSE
    /\ saved' = FALSE
    /\ alertAtStart' = alert
    /\ history_resp' = NoHistory
    /\ history' = <<>>
    /\ IF address = ""
       THEN pc' = "wait" /\ shown' = {}
       ELSE /\ pc' = IF tr.kind = "verify" THEN "verify" ELSE "fetch"
            /\ shown' = shown

\* main() returns, or an exception ends it: the page shows `widgets`
EndRun(widgets) ==
    /\ pc' = "wait"
    /\ shown' = widgets

\* the user edits the text input of lines 85-89
EnterAddress(a) ==
    /\ pc = "wait"
    /\ a # token_address
    /\ token_address' = a
    /\ BeginRun(Event("address"), a)
    /\ UNCHANGED <<alert, sinceSave, upstream>>

\* the user presses the button of line 92
PressVerify ==
    /\ pc = "wait"
    /\ "verify" \in shown
    /\ BeginRun(Event("verify"), token_address)
    /\ UNCHANGED <<token_address, alert, sinceSave, upstream>>

\* the user submits the form of lines 129-145
SubmitAlert(p, c) ==
    /\ pc = "wait"
    /\ "save" \in shown
    /\ BeginRun([kind |-> "save", alert_price |-> Num(p), alert_condition |-> c],
                token_address)
    /\ UNCHANGED <<token_address, alert, sinceSave, upstream>>

\* the user presses the button of line 160
PressStop ==
    /\ pc = "wait"
    /\ "stop" \in shown
    /\ BeginRun(Event("stop"), token_address)
    /\ UNCHANGED <<token_address, alert, sinceSave, upstream>>

\* lines 92-96: the lookup behind Verify Token
VerifyFetch ==
    /\ pc = "verify"
    /\ \E resp \in PageResponses(token_address) :
          coin_data' = get_meme_coin_data(resp)
    /\ requests' = requests + 1
    /\ pc' = "fetch"
    /\ UNCHANGED <<token_address, alert, trigger, shown, notified, evaluated,
                   saved, alertAtStart, sinceSave, upstream,
                   history_resp, history>>

\* lines 98-107: the lookup of the price display
MainFetch ==
    /\ pc = "fetch"
    /\ \E resp \in PageResponses(token_address) :
          coin_data' = get_meme_coin_data(resp)
    /\ requests' = requests + 1
    /\ IF Truthy(coin_data')
       THEN pc' = "history" /\ shown' = shown
       ELSE EndRun({"verify"})
    /\ UNCHANGED <<token_address, alert, trigger, notified, evaluated, saved,
                   alertAtStart, sinceSave, upstream,
                   history_resp, history>>

\* lines 109-126: the chart
HistoryFetch ==
    /\ pc = "history"
    /\ \E resp \in HistoryResponses :
          /\ history_resp' = resp
          /\ history' = get_historical_data(resp)
          /\ IF HistoryRaises(resp) \/ ChartRaises(get_historical_data(resp))
             THEN EndRun({"verify"})
             ELSE pc' = "form" /\ shown' = shown
    /\ UNCHANGED <<token_address, alert, trigger, coin_data, requests, notified,
                   evaluated, saved, alertAtStart, sinceSave, upstream>>

\* lines 128-152: the alert form
AlertForm ==
    /\ pc = "form"
    /\ IF NumberInputRaises(coin_data.price)
       THEN /\ EndRun({"verify"})
            /\ UNCHANGED <<alert, saved, sinceSave>>
       ELSE /\ pc' = "monitor"
            /\ shown' = shown
            /\ IF trigger.kind = "save"
               THEN /\ alert' = NewAlert(trigger.alert_price,
                                          trigger.alert_condition, coin_data)
                    /\ saved' = TRUE
                    /\ sinceSave' = 0
               ELSE UNCHANGED <<alert, saved, sinceSave>>
    /\ UNCHANGED <<token_address, trigger, coin_data, requests, notified,
                   evaluated, alertAtStart, upstream,
                   history_resp, history>>

\* lines 154-177: the monitoring block
Monitor ==
    /\ pc = "monitor"
    /\ sinceSave < MaxNotify
    /\ IF ~HasAlert(alert)
       THEN /\ EndRun({"verify", "save"})
            /\ UNCHANGED <<alert, notified, evaluated, sinceSave>>
       ELSE IF StopPressed(trigger)
       THEN /\ alert' = Pop(alert)
            /\ pc' = "rerun"
            /\ UNCHANGED <<shown, notified, evaluated, sinceSave>>
       ELSE /\ evaluated' = TRUE
            /\ IF condition_met(alert, coin_data.price)
               THEN /\ notified' = TRUE
                    /\ sinceSave' = sinceSave + 1
                    /\ alert' = Pop(alert)
                    /\ pc' = "rerun"
                    /\ shown' = shown
               ELSE /\ EndRun({"verify", "save", "stop"})
                    /\ UNCHANGED <<alert, notified, sinceSave>>
    /\ UNCHANGED <<token_address, trigger, coin_data, requests, saved,
                   alertAtStart, upstream,
                   history_resp, history>>

\* st.rerun() of lines 162 and 177: the script starts over at once, with
\* no button pressed
StRerun ==
    /\ pc = "rerun"
    /\ BeginRun(NoTrigger, token_address)
    /\ UNCHANGED <<token_address, alert, sinceSave, upstream>>

Next ==
    \/ \E a \in Addresses \cup {InvalidAddress, ""} : EnterAddress(a)
    \/ PressVerify
    \/ \E p \in 1..MaxPrice, c \in Conditions : SubmitAlert(p, c)
    \/ PressStop
    \/ VerifyFetch
    \/ MainFetch
    \/ HistoryFetch
    \/ AlertForm
    \/ Monitor
    \/ StRerun

Spec == Init /\ [][Next]_vars

\* ------------------------------------------- one lookup, any pair list
\* The selection of lines 51-61 applied to every pair list of up to
\* MaxPairs candidates; a candidate's pairAddress is its position in the
\* upstream response.
SelectPrices == {Absent, BadStr, RawNaN, RawNum(-1), RawNum(1)}

SelectInit ==
    /\ token_address \in Addresses
    /\ upstream = <<>>
    /\ alert = NoAlert
    /\ pc = "lookup"
    /\ trigger = NoTrigger
    /\ coin_data = None
    /\ shown = {}
    /\ requests = 0
    /\ notified = FALSE
    /\ evaluated = FALSE
    /\ saved = FALSE
    /\ alertAtStart = NoAlert
    /\ sinceSave = 0
    /\ history_resp = NoHistory
    /\ history = <<>>

\* the aggregator lists one more pair for the address
ListPair(c, p, v) ==
    /\ pc = "lookup"
    /\ Len(upstream) < MaxPairs
    /\ upstream' = Append(upstream,
                          Candidate(Len(upstream) + 1, token_address, c, p, v))
    /\ UNCHANGED <<token_address, alert, pc, trigger, coin_data, shown, requests,
                   notified, evaluated, saved, alertAtStart, sinceSave,
                   history_resp, history>>

\* line 99 on the response whose 'pairs' is `upstream`
Lookup ==
    /\ pc = "lookup"
    /\ coin_data' = get_meme_coin_data(Pairs(upstream))
    /\ requests' = requests + 1
    /\ pc' = "looked"
    /\ UNCHANGED <<token_address, alert, trigger, shown, notified, evaluated,
                   saved, alertAtStart, sinceSave, upstream,
                   history_resp, history>>

SelectNext ==
    \/ \E c \in Chains, p \in SelectPrices, v \in RawVolumes : ListPair(c, p, v)
    \/ Lookup

SelectSpec == SelectInit /\ [][SelectNext]_vars

\* --------------------------------------------- one price history request
\* get_historical_data applied to every price history of up to MaxHistory
\* points. The aggregator records one point per tick, the n-th with
\* timestamp n, and lists them oldest first or newest first.
HistoryPoint(t) == [timestamp |-> RawNum(t), priceUsd |-> RawNum(1)]

HistoryInit ==
    /\ token_address \in Addresses
    /\ upstream = <<>>
    /\ alert = NoAlert
    /\ pc = "feed"
    /\ trigger = NoTrigger
    /\ coin_data = None
    /\ shown = {}
    /\ requests = 0
    /\ notified = FALSE
    /\ evaluated = FALSE
    /\ saved = FALSE
    /\ alertAtStart = NoAlert
    /\ sinceSave = 0
    /\ history_resp = [kind |-> "points", points |-> <<>>]
    /\ history = <<>>

OldestFirst(points) ==
    IF Len(points) < 2 THEN TRUE
    ELSE points[1].timestamp.v < points[2].timestamp.v

NewestFirst(points) ==
    IF Len(points) < 2 THEN TRUE
    ELSE points[1].timestamp.v > points[2].timestamp.v

\* a tick of the aggregator, on a list kept oldest first
RecordPointLast ==
    /\ pc = "feed"
    /\ Len(history_resp.points) < MaxHistory
    /\ OldestFirst(history_resp.points)
    /\ history_resp' =
          [history_resp EXCEPT !.points =
              Append(@, HistoryPoint(Len(@) + 1))]
    /\ UNCHANGED <<token_address, alert, pc, trigger, coin_data, shown, requests,
                   notified, evaluated, saved, alertAtStart, sinceSave, upstream,
                   history>>

\* a tick of the aggregator, on a list kept newest first
RecordPointFirst ==
    /\ pc = "feed"
    /\ Len(history_resp.points) < MaxHistory
    /\ NewestFirst(history_resp.points)
    /\ history_resp' =
          [history_resp EXCEPT !.points =
              <<HistoryPoint(Len(@) + 1)>> \o @]
    /\ UNCHANGED <<token_address, alert, pc, trigger, coin_data, shown, requests,
                   notified, evaluated, saved, alertAtStart, sinceSave, upstream,
                   history>>

\* line 110 when the request answers with the price history
FetchHistory ==
    /\ pc = "feed"
    /\ history' = get_historical_data(history_resp)
    /\ pc' = "fetched"
    /\ UNCHANGED <<token_address, alert, trigger, coin_data, shown, requests,
                   notified, evaluated, saved, alertAtStart, sinceSave, upstream,
                   history_resp>>

\* line 110 when the request fails
FetchHistoryFails(kind) ==
    /\ pc = "feed"
    /\ history_resp' = [kind |-> kind, points |-> <<>>]
    /\ history' = get_historical_data(history_resp')
    /\ pc' = "fetched"
    /\ UNCHANGED <<token_address, alert, trigger, coin_data, shown, requests,
                   notified, evaluated, saved, alertAtStart, sinceSave, upstream>>

HistoryNext ==
    \/ RecordPointLast
    \/ RecordPointFirst
    \/ FetchHistory
    \/ \E kind \in {"timeout", "nopair"} : FetchHistoryFails(kind)

HistorySpec == HistoryInit /\ [][HistoryNext]_vars

\* ================================================================ claims
\* C1: after one Save Alert the notification is emitted at most once: a run
\* that evaluates the saved condition and finds it satisfied notifies and
\* removes the alert in that same run, a run that evaluates it and does not
\* notify found it unsatisfied and keeps the alert, and once the alert has
\* notified it stays removed (so nothing notifies) until Save Alert is
\* submitted again.
NotifyOncePerSave ==
    /\ sinceSave <= 1
    /\ notified => pc = "rerun" /\ ~alert.present /\ sinceSave = 1
    /\ (evaluated /\ ~notified) =>
          alert.present /\ ~condition_met(alert, coin_data.price)
    /\ sinceSave = 1 => ~alert.present

\* an alert has notified, and a later complete run has observed a quote
\* without notifying
C1Witness ==
    /\ sinceSave = 1
    /\ pc = "wait"
    /\ coin_data.ok
    /\ "save" \in shown
    /\ ~notified

\* C2: a run whose token lookup returns None ends there: it notifies
\* nothing, evaluates and saves nothing, and leaves the stored alert as it
\* was when the run began; the steps behind the lookup only ever run with a
\* quote.
FailedFetchSkipsAlert ==
    /\ (pc = "wait" /\ requests > 0 /\ ~coin_data.ok) =>
          /\ ~notified
          /\ ~evaluated
          /\ ~saved
          /\ alert = alertAtStart
    /\ pc \in {"history", "form", "monitor", "rerun"} => coin_data.ok
    /\ evaluated => coin_data.ok

\* a run pressed Stop Monitoring on a stored alert, its lookup failed, and
\* the alert is still stored
C2Witness ==
    /\ pc = "wait"
    /\ requests > 0
    /\ ~coin_data.ok
    /\ trigger.kind = "stop"
    /\ alert.present

\* C3: a run that neither starts with a stored alert nor saves one never
\* evaluates a condition, never notifies and ends with no alert stored.
NoAlertNoNotification ==
    /\ notified => alertAtStart.present \/ saved
    /\ (~alertAtStart.present /\ ~saved) =>
          ~alert.present /\ ~notified /\ ~evaluated

\* a run without an alert went through the monitoring block with a quote
C3Witness ==
    /\ pc = "wait"
    /\ coin_data.ok
    /\ shown = {"verify", "save"}
    /\ ~alertAtStart.present
    /\ ~saved
    /\ ~alert.present

\* ------------------------------------------------ claims on the lookup
Looked == pc = "looked"

\* the position in the response of the pair the quote was taken from
Sel == coin_data.pair_address

Parses(raw) == raw.tag \notin {"absent", "str"}

\* the volume a candidate is meant to rank with: a missing or unparseable
\* volumeUsd counts 0
Rank(c) == IF c.volumeUsd.tag = "num" THEN c.volumeUsd.v ELSE 0

\* a present, parseable, finite, non-negative price
ValidPrice(c) == c.priceUsd.tag = "num" /\ c.priceUsd.v >= 0

Positions == 1..Len(upstream)

QuoteOnAddressChain ==
    (Looked /\ coin_data.ok) => upstream[Sel].chainId = Classify(token_address)

\* C6: every quote a lookup returns has a finite, non-negative price.
QuotePriceFiniteNonNegative ==
    coin_data.ok => IsFinite(coin_data.price) /\ coin_data.price.v >= 0

\* C7: when the candidates' volumes all parse and at least one candidate
\* has a valid price, the lookup succeeds and returns the highest-volume
\* candidate among the valid ones.
ValidPriceFilteredFirst ==
    (/\ Looked
     /\ \A i \in Positions : upstream[i].volumeUsd.tag = "num"
     /\ \E i \in Positions : ValidPrice(upstream[i])) =>
        /\ coin_data.ok
        /\ Sel \in Positions
        /\ ValidPrice(upstream[Sel])
        /\ \A i \in Positions :
              ValidPrice(upstream[i]) => Rank(upstream[i]) <= Rank(upstream[Sel])

\* C8: when every candidate has a valid price, a candidate whose volumeUsd
\* is missing or unparseable ranks as volume 0: the lookup succeeds and
\* returns a candidate of maximum rank.
BadVolumeRanksZero ==
    (/\ Looked
     /\ upstream # <<>>
     /\ \A i \in Positions : ValidPrice(upstream[i])) =>
        /\ coin_data.ok
        /\ Sel \in Positions
        /\ \A i \in Positions : Rank(upstream[i]) <= Rank(upstream[Sel])

\* C9: the candidate a successful lookup selects is the first one in the
\* response among those of maximum volume: no candidate has a greater
\* volume and no earlier candidate an equal one.
TiesKeepResponseOrder ==
    (Looked /\ coin_data.ok) =>
        /\ Sel \in Positions
        /\ \A i \in Positions : Rank(upstream[i]) <= Rank(upstream[Sel])
        /\ \A i \in 1..(Sel - 1) : Rank(upstream[i]) < Rank(upstream[Sel])

\* two candidates share the maximum volume and the first is selected
C9Witness ==
    /\ Looked
    /\ Len(upstream) = 2
    /\ upstream[1].volumeUsd.tag = "num"
    /\ upstream[1].volumeUsd = upstream[2].volumeUsd
    /\ upstream[1].priceUsd # upstream[2].priceUsd
    /\ coin_data.ok
    /\ Sel = 1

\* C10: a page run sends at most one token lookup upstream for its address.
OneLookupPerRun == requests <= 1

\* the steps the script takes by itself, without anybody touching the page
ScriptStep ==
    \/ VerifyFetch
    \/ MainFetch
    \/ HistoryFetch
    \/ AlertForm
    \/ Monitor
    \/ StRerun

\* C11: while an alert is armed the page keeps polling on its own: whenever
\* a run has ended and an alert is stored, a step of the script itself (the
\* next tick) can be taken without any user interaction.
ArmedAlertKeepsPolling ==
    (pc = "wait" /\ alert.present) => ENABLED ScriptStep

\* C12: for an address that classifies as invalid the lookup fails and no
\* upstream request is issued.
InvalidAddressNoRequest ==
    Classify(token_address) = "invalid" => requests = 0 /\ ~coin_data.ok

\* the alert a Save Alert submission asks for
Submitted ==
    [present |-> TRUE, price |-> trigger.alert_price,
     condition |-> trigger.alert_condition, token |-> coin_data.base_token,
     active |-> TRUE]

BothThresholdsInForce ==
    ( /\ saved
      /\ evaluated
      /\ alertAtStart.present
      /\ alertAtStart.condition = "Price Goes Above"
      /\ trigger.alert_condition = "Price Goes Below"
      /\ FloatGt(coin_data.price, alertAtStart.price) ) => notified

\* C16: get_historical_data returns the latest min(HistoryLimit, length)
\* points of the upstream price history, oldest first: with n points
\* upstream, stamped 1..n, and k returned, the i-th returned point is the
\* one stamped n - k + i.
HistoryIsLatestAscending ==
    (pc = "fetched" /\ history_resp.kind = "points") =>
       LET n == Len(history_resp.points)
           k == IF n < HistoryLimit THEN n ELSE HistoryLimit
       IN  /\ Len(history) = k
           /\ \A i \in 1..Len(history) :
                 history[i].timestamp.v = n - k + i

\* C17: a failed history request is not fatal: get_historical_data returns
\* the empty list, the chart is skipped and the run goes on with the quote
\* it fetched to the alert form and, unless the form's number input
\* rejects the quoted price, through the monitoring block, where a stored
\* alert is evaluated.
HistoryFailureNonFatal ==
    history_resp.kind \in {"timeout", "nopair"} =>
       /\ history = <<>>
       /\ coin_data.ok
       /\ pc \in {"form", "monitor", "wait", "rerun"}
       /\ (pc = "wait" /\ NumberInputRaises(coin_data.price)) =>
             shown = {"verify"}
       /\ (pc = "wait" /\ ~NumberInputRaises(coin_data.price)) =>
             /\ "save" \in shown
             /\ alert.present => evaluated
       /\ pc = "rerun" => trigger.kind = "stop" \/ evaluated

\* a run whose history request timed out has evaluated the stored alert
C17Witness ==
    /\ history_resp.kind = "timeout"
    /\ pc = "wait"
    /\ alertAtStart.present
    /\ alert.present
    /\ evaluated

\* the threshold and direction of the alert a run evaluates
Evaluated ==
    IF saved
    THEN [price |-> trigger.alert_price, condition |-> trigger.alert_condition]
    ELSE [price |-> alertAtStart.price, condition |-> alertAtStart.condition]

\* C18: the comparison is strict in both directions: a run notifies only
\* on a price that is a number strictly above the threshold of an Above
\* alert or strictly below that of a Below alert, and a run that evaluates
\* a price equal to the threshold does not notify and leaves the alert
\* armed and unchanged.
StrictComparison ==
    /\ notified =>
          /\ coin_data.price.k = "num"
          /\ \/ /\ Evaluated.condition = "Price Goes Above"
                /\ coin_data.price.v > Evaluated.price.v
             \/ /\ Evaluated.condition = "Price Goes Below"
                /\ coin_data.price.v < Evaluated.price.v
    /\ (evaluated /\ coin_data.price = Evaluated.price) =>
          /\ ~notified
          /\ alert.present
          /\ alert.price = Evaluated.price
          /\ alert.condition = Evaluated.condition
          /\ ~saved => alert = alertAtStart

\* a run has evaluated a stored alert against a price equal to its
\* threshold
C18Witness ==
    /\ evaluated
    /\ ~saved
    /\ pc = "wait"
    /\ coin_data.price = alertAtStart.price
    /\ alert = alertAtStart

\* C19: a stored alert is only evaluated against a quote of the token it
\* was saved for.
AlertEvaluatedOnOwnToken ==
    (evaluated /\ ~saved) => alertAtStart.token = coin_data.base_token

\* the submitted condition against the run's quote, in plain arithmetic
SubmittedMet ==
    /\ coin_data.price.k = "num"
    /\ \/ /\ trigger.alert_condition = "Price Goes Above"
          /\ coin_data.price.v > trigger.alert_price.v
       \/ /\ trigger.alert_condition = "Price Goes Below"
          /\ coin_data.price.v < trigger.alert_price.v

\* C20: evaluation is level-triggered and happens in the run that saves:
\* once the monitoring block of a run that saved an alert on a quote
\* already satisfying it is through, the notification has been emitted
\* and the alert is removed, so the run restarts with no alert stored and
\* no later run finds that alert armed.
SaveOnSatisfiedQuoteFiresAtOnce ==
    /\ (saved /\ SubmittedMet /\ pc # "monitor") =>
          pc = "rerun" /\ notified /\ ~alert.present /\ sinceSave = 1
    /\ (saved /\ ~SubmittedMet /\ pc # "monitor") =>
          pc = "wait" /\ ~notified /\ alert.present

\* a Below alert saved on a quote under its threshold has notified in the
\* saving run
C20Witness ==
    /\ saved
    /\ pc = "rerun"
    /\ notified
    /\ trigger.alert_condition = "Price Goes Below"
    /\ ~alertAtStart.present
    /\ ~alert.present
====
